---------------------------- MODULE Spec2Model ----------------------------
(***************************************************************************)
(* A model of the three scripts of the RAG pipeline:                       *)
(*   parse_html.py          the HTML Cleaner (clean_html_file + main loop) *)
(*   embed_documents.py     the Indexer                                    *)
(*   query_with_context.py  the Query Tool                                 *)
(*                                                                         *)
(* A parsed document (the BeautifulSoup tree) is the sequence of its nodes *)
(* in document order, each with its depth below the soup object; the       *)
(* subtree of a node is the run of deeper nodes that follows it.  A node   *)
(* carries nid, its position in the input, as its identity.                *)
(***************************************************************************)
EXTENDS Integers, Sequences, FiniteSets, TLC

VARIABLES
    \* parse_html.py, clean_html_file
    pc,               \* the statement clean_html_file is about to run
    input,            \* the document read from input_path
    soup,             \* the tree clean_html_file works on
    output,           \* what was written to output_path (<<"none">> before)
    \* parse_html.py, main script
    raw_html,         \* the input directory: file name -> [readable, doc]
    listing,          \* what is left of os.listdir(input_dir)
    cleaned_html,     \* the directory temp_dir: file name -> document
    cleaned_markdown, \* the directory output_dir: file name -> text blocks
    main_pc,          \* "loop", "raised" (uncaught exception) or "done"
    raised_on,        \* the file whose processing raised, <<>> when none
    \* embed_documents.py
    md_dir,           \* the markdown documents of docs_dir
    chunks,           \* the chunks of the last run (line 21)
    index,            \* the persisted collection of persist_dir
    runs,             \* how often the Indexer ran
    \* query_with_context.py
    query_pc,         \* the statement the script is about to run
    query,            \* the question read from standard input
    results,          \* what similarity_search returned
    loop_i,           \* i, the loop index of enumerate(results)
    prompt,           \* the prompt built so far
    stdout            \* the lines printed

cleanVars == <<pc, input, soup, output>>
mainVars  == <<raw_html, listing, cleaned_html, cleaned_markdown, main_pc, raised_on>>
indexVars == <<md_dir, chunks, runs>>
queryVars == <<query_pc, query, results, loop_i, prompt, stdout>>
vars      == <<cleanVars, mainVars, indexVars, index, queryVars>>

-----------------------------------------------------------------------------
(* Bounds *)

MaxNodes == 5
MaxFiles == 2
MaxPieces == 4
MaxRuns == 2
MaxIndex == 6

-----------------------------------------------------------------------------
(* Nodes.  name = "" is a NavigableString (bs4 gives it name None).        *)

Tag(name, id, cls) == [name |-> name, id |-> id, cls |-> cls, junk |-> FALSE]
Str(junk) == [name |-> "", id |-> "", cls |-> "", junk |-> junk]

KBody   == Tag("body", "", "")
KMain   == Tag("div", "mw-content-text", "")
KAlt    == Tag("section", "mw-content-text", "")
KNav    == Tag("div", "", "navbox")
KOutput == Tag("div", "", "mw-parser-output")
KHlist  == Tag("ul", "", "hlist")
KPara   == Tag("p", "", "")
KH2     == Tag("h2", "", "")
KH3     == Tag("h3", "", "")
KHr     == Tag("hr", "", "")
KSpan   == Tag("span", "See_also", "")
KText   == Str(FALSE)
KJunk   == Str(TRUE)

IsTag(n) == n.name # ""

\* str.startswith("h") over the tag names of the model
StartsWithH(name) == name \in {"h2", "h3", "hr"}

\* the names that are heading elements (hr is a rule, not a heading)
IsHeadingName(name) == name \in {"h2", "h3"}


-----------------------------------------------------------------------------
(* The tree: a sequence of nodes in document order.                        *)

Node(k, depth, nid) ==
    [name |-> k.name, id |-> k.id, cls |-> k.cls, junk |-> k.junk,
     depth |-> depth, nid |-> nid]

Min(S) == CHOOSE x \in S : \A y \in S : x <= y
Max(S) == CHOOSE x \in S : \A y \in S : x >= y

\* the first position of a set of positions, 0 (None) when there is none
First(S) == IF S = {} THEN 0 ELSE Min(S)

\* the last position of the subtree rooted at position i
SubtreeEnd(d, i) ==
    LET later == {k \in (i + 1)..Len(d) : d[k].depth <= d[i].depth}
    IN  IF later = {} THEN Len(d) ELSE Min(later) - 1

\* j is a proper ancestor of i
IsAncestor(d, j, i) == j < i /\ i <= SubtreeEnd(d, j)

\* the position of the node with identity nid, 0 when it left the tree
Pos(d, nid) == First({i \in 1..Len(d) : d[i].nid = nid})

Nids(d) == {d[i].nid : i \in 1..Len(d)}

\* the nodes of a slice moved by delta levels
Shift(slice, delta) ==
    [i \in 1..Len(slice) |-> [slice[i] EXCEPT !.depth = @ + delta]]

\* Tag.extract / Tag.decompose: the node at position i leaves with its subtree
decompose(d, i) ==
    SubSeq(d, 1, i - 1) \o SubSeq(d, SubtreeEnd(d, i) + 1, Len(d))

\* every subtree rooted at a position of S leaves the tree
decompose_all(d, S) ==
    LET gone == {i \in 1..Len(d) : \E j \in S : j = i \/ IsAncestor(d, j, i)}
        kept == SelectSeq([i \in 1..Len(d) |-> i], LAMBDA i : i \notin gone)
    IN  [k \in 1..Len(kept) |-> d[kept[k]]]

\* soup.find(name, id=id): the first such tag in document order
find(d, name, id) ==
    First({i \in 1..Len(d) : d[i].name = name /\ d[i].id = id})

\* soup.body: the first body tag in document order
body_of(d) == First({i \in 1..Len(d) : d[i].name = "body"})

\* Tag.find_parent(name): the nearest ancestor with that name
find_parent(d, i, name) ==
    LET anc == {j \in 1..Len(d) : IsAncestor(d, j, i) /\ d[j].name = name}
    IN  IF anc = {} THEN 0 ELSE Max(anc)

\* Tag.find_next_sibling(): the next sibling that is a Tag (strings are skipped)
find_next_sibling(d, i) ==
    LET e == SubtreeEnd(d, i)
        stop == First({k \in (e + 1)..Len(d) : d[k].depth < d[i].depth})
        last == IF stop = 0 THEN Len(d) ELSE stop - 1
    IN  First({k \in (e + 1)..last : d[k].depth = d[i].depth /\ IsTag(d[k])})

-----------------------------------------------------------------------------
(* clean_html_file, step by step                                           *)

\* line 10: soup.find("div", id="mw-content-text")
content_root_of(d) == find(d, "div", "mw-content-text")

\* a bug retain_main could have: content_root appended to a body that was
\* not cleared first
retain_main_no_clear(d) ==
    LET cr    == find(d, "div", "mw-content-text")
        b     == body_of(d)
        slice == SubSeq(d, cr, SubtreeEnd(d, cr))
        moved == Shift(slice, d[b].depth + 1 - d[cr].depth)
        d1    == decompose(d, cr)
        b1    == Pos(d1, d[b].nid)
    IN  IF cr = 0 THEN d
        ELSE IF IsAncestor(d, cr, b) THEN d1
        ELSE SubSeq(d1, 1, SubtreeEnd(d1, b1)) \o moved
                 \o SubSeq(d1, SubtreeEnd(d1, b1) + 1, Len(d1))

\* lines 11-13 on a tree that has a body: soup.body.clear(), then
\* soup.body.append(content_root), which first takes content_root out of
\* wherever it still is
retain_main(d) ==
    LET cr    == content_root_of(d)
        b     == body_of(d)
        slice == SubSeq(d, cr, SubtreeEnd(d, cr))
        moved == Shift(slice, d[b].depth + 1 - d[cr].depth)
    IN  IF cr = 0 THEN d
        ELSE IF IsAncestor(d, cr, b) THEN decompose(d, cr)
        ELSE IF IsAncestor(d, b, cr)
             THEN SubSeq(d, 1, b) \o moved
                      \o SubSeq(d, SubtreeEnd(d, b) + 1, Len(d))
        ELSE LET d1 == decompose(d, cr)
                 b1 == Pos(d1, d[b].nid)
             IN  SubSeq(d1, 1, b1) \o moved
                     \o SubSeq(d1, SubtreeEnd(d1, b1) + 1, Len(d1))

\* line 12 on a tree without a body: soup.body is None, None.clear() raises
retain_main_raises(d) == content_root_of(d) # 0 /\ body_of(d) = 0

\* lines 16-19: the selectors; within is the class of a required ancestor
Selectors ==
    << [within |-> "", cls |-> "navbox"],
       [within |-> "", cls |-> "printfooter"],
       [within |-> "", cls |-> "toc"],
       [within |-> "", cls |-> "mw-editsection"],
       [within |-> "mw-parser-output", cls |-> "hlist"] >>

\* line 20: soup.select(selector)
select(d, sel) ==
    {i \in 1..Len(d) :
        /\ d[i].cls = sel.cls
        /\ sel.within # "" =>
              \E j \in 1..Len(d) : IsAncestor(d, j, i) /\ d[j].cls = sel.within}

\* lines 16-21: one selector after the other, every match decomposed
RECURSIVE remove_clutter_from(_, _)
remove_clutter_from(d, k) ==
    IF k > Len(Selectors) THEN d
    ELSE remove_clutter_from(decompose_all(d, select(d, Selectors[k])), k + 1)

remove_clutter(d) == remove_clutter_from(d, 1)

\* lines 24-29: every string holding a junk substring is extracted
remove_junk(d) ==
    decompose_all(d, {i \in 1..Len(d) : ~IsTag(d[i]) /\ d[i].junk})

\* lines 37-42: the while loop; cur is the position of current, 0 for None
RECURSIVE see_also_loop(_, _)
see_also_loop(d, cur) ==
    IF cur = 0 THEN d
    ELSE LET next_node == find_next_sibling(d, cur)
         IN  IF next_node # 0 /\ StartsWithH(d[next_node].name)
             THEN d
             ELSE LET d1 == decompose(d, cur)
                  IN  see_also_loop(d1,
                        IF next_node = 0 THEN 0 ELSE Pos(d1, d[next_node].nid))

\* line 32
see_also_span_of(d) == find(d, "span", "See_also")

\* a bug heading_of could have: the first h2 taken for the section's heading
\* without looking for the span
heading_of_first_h2(d) == First({i \in 1..Len(d) : d[i].name = "h2"})

\* line 34; 0 when there is no span or no enclosing h2
heading_of(d) ==
    IF see_also_span_of(d) = 0 THEN 0
    ELSE find_parent(d, see_also_span_of(d), "h2")

\* lines 32-43
remove_see_also(d) ==
    LET heading == heading_of(d)
    IN  IF heading = 0 THEN d
        ELSE LET d1 == see_also_loop(d, heading)
                 h1 == Pos(d1, d[heading].nid)
             IN  IF h1 = 0 THEN d1 ELSE decompose(d1, h1)

-----------------------------------------------------------------------------
(* The input documents: every tree of at most MaxNodes nodes of a family,  *)
(* which the parser builds node by node.  A family names its kinds of      *)
(* node, the kinds that stay childless, and groups of kinds of which a     *)
(* document holds at most one node.                                        *)

MainFamily ==
    [kinds  |-> {KBody, KMain, KAlt, KNav, KOutput, KHlist, KPara, KText, KJunk},
     leaves |-> {KNav, KHlist, KPara, KText, KJunk},
     once   |-> {{KBody}, {KMain, KAlt}, {KNav, KHlist, KJunk}, {KOutput}}]

SeeAlsoFamily ==
    [kinds  |-> {KH2, KH3, KHr, KPara, KSpan, KText},
     leaves |-> {KHr, KPara, KSpan, KText},
     once   |-> {{KSpan}, {KHr}, {KH3}}]

KindOf(n) == [name |-> n.name, id |-> n.id, cls |-> n.cls, junk |-> n.junk]

\* the documents that are d with one more node at its end
Extend(F, d) ==
    LET maxDepth == IF d = <<>> THEN 1
                    ELSE IF KindOf(d[Len(d)]) \in F.leaves
                         THEN d[Len(d)].depth
                         ELSE d[Len(d)].depth + 1
        fits(k) == \A g \in F.once :
                      k \in g => \A i \in 1..Len(d) : KindOf(d[i]) \notin g
    IN  {Append(d, Node(k, dp, Len(d) + 1)) :
            k \in {x \in F.kinds : fits(x)}, dp \in 1..maxDepth}

\* d is a document of family F
InFamily(F, d) == \A i \in 1..Len(d) : KindOf(d[i]) \in F.kinds

-----------------------------------------------------------------------------
(* What a script that is not running holds.                               *)

CleanIdle == pc = "idle" /\ input = <<>> /\ soup = <<>> /\ output = <<"none">>

MainIdle ==
    /\ raw_html = <<>> /\ listing = <<>> /\ cleaned_html = <<>>
    /\ cleaned_markdown = <<>> /\ main_pc = "idle" /\ raised_on = <<>>

IndexIdle == md_dir = <<>> /\ chunks = <<>> /\ runs = 0

QueryIdle ==
    /\ query_pc = "idle" /\ query = "" /\ results = <<>> /\ loop_i = 0
    /\ prompt = <<>> /\ stdout = <<>>

-----------------------------------------------------------------------------
(* clean_html_file as a process: pc is the statement it is about to run.   *)

CleanInit ==
    /\ MainIdle /\ IndexIdle /\ index = <<>> /\ QueryIdle
    /\ input = <<>>
    /\ soup = <<>>
    /\ output = <<"none">>
    /\ pc = "parse"

\* lines 6-7: the parser reads one more node of the file into the tree
Parse ==
    /\ pc = "parse"
    /\ Len(input) < MaxNodes
    /\ \E F \in {MainFamily, SeeAlsoFamily} :
          /\ InFamily(F, input)
          /\ input' \in Extend(F, input)
    /\ soup' = input'
    /\ UNCHANGED <<pc, output, mainVars, indexVars, index, queryVars>>

\* lines 10-13, the file read to its end; without a body the call ends in an
\* AttributeError
RetainMain ==
    /\ pc = "parse"
    /\ IF retain_main_raises(soup)
       THEN pc' = "raised" /\ soup' = soup
       ELSE pc' = "remove_clutter" /\ soup' = retain_main(soup)
    /\ UNCHANGED <<input, output, mainVars, indexVars, index, queryVars>>

\* lines 16-21
RemoveClutter ==
    /\ pc = "remove_clutter"
    /\ soup' = remove_clutter(soup)
    /\ pc' = "remove_junk"
    /\ UNCHANGED <<input, output, mainVars, indexVars, index, queryVars>>

\* lines 24-29
RemoveJunk ==
    /\ pc = "remove_junk"
    /\ soup' = remove_junk(soup)
    /\ pc' = "remove_see_also"
    /\ UNCHANGED <<input, output, mainVars, indexVars, index, queryVars>>

\* lines 32-43
RemoveSeeAlso ==
    /\ pc = "remove_see_also"
    /\ soup' = remove_see_also(soup)
    /\ pc' = "write"
    /\ UNCHANGED <<input, output, mainVars, indexVars, index, queryVars>>

\* lines 45-46
WriteOutput ==
    /\ pc = "write"
    /\ output' = soup
    /\ pc' = "done"
    /\ UNCHANGED <<input, soup, mainVars, indexVars, index, queryVars>>

CleanNext == Parse \/ RetainMain \/ RemoveClutter \/ RemoveJunk \/ RemoveSeeAlso \/ WriteOutput

SpecClean == CleanInit /\ [][CleanNext]_vars

-----------------------------------------------------------------------------
(* The main script of parse_html.py.  A file name is the sequence of its   *)
(* pieces, ".html" and ".md" being pieces of their own: "a.md.html" is     *)
(* <<"a", ".md", ".html">>.                                                *)

\* lines 5-46 for a file that is read and parsed without an exception
clean_html_file(d) ==
    remove_see_also(remove_junk(remove_clutter(retain_main(d))))

\* clean_html_file raises: open/read fails (line 6) or soup.body is None (line 12)
clean_html_file_raises(f) == ~f.readable \/ retain_main_raises(f.doc)

\* line 56: filename.endswith(".html")
endswith_html(filename) == filename[Len(filename)] = ".html"

\* line 65: filename.replace(".html", ".md") replaces every occurrence
replace_html_md(filename) ==
    [i \in 1..Len(filename) |->
        IF filename[i] = ".html" THEN ".md" ELSE filename[i]]

\* lines 62-63: the text of the elements partition_html finds, here the
\* strings of the cleaned document in document order
partition_html(d) ==
    LET strs == SelectSeq(d, LAMBDA n : ~IsTag(n))
    IN  [i \in 1..Len(strs) |-> strs[i].nid]

\* a directory with file name k (over)written with v
Put(dir, k, v) ==
    [x \in DOMAIN dir \cup {k} |-> IF x = k THEN v ELSE dir[x]]

FileNames ==
    { <<"a", ".html">>, <<"b", ".html">>, <<"a", ".html", ".html">>,
      <<"a", ".md", ".html">>, <<"a", ".md">>, <<"notes", ".txt">> }

\* <body><div id="mw-content-text">text</div><div class="navbox">text</div></body>
DocArticle ==
    << Node(KBody, 1, 1), Node(KMain, 2, 2), Node(KText, 3, 3),
       Node(KNav, 2, 4), Node(KText, 3, 5) >>

\* <div id="mw-content-text">text</div>, no body around it
DocNoBody == << Node(KMain, 1, 1), Node(KText, 2, 2) >>

\* <p>text</p>
DocPlain == << Node(KPara, 1, 1), Node(KText, 2, 2) >>

Files ==
    {[readable |-> TRUE, doc |-> d] : d \in {DocArticle, DocNoBody, DocPlain}}
        \cup {[readable |-> FALSE, doc |-> <<>>]}

\* the orders os.listdir may list the names of S in
Listings(S) ==
    {l \in [1..Cardinality(S) -> S] : \A i, j \in DOMAIN l : i # j => l[i] # l[j]}

MainInit ==
    /\ CleanIdle /\ IndexIdle /\ index = <<>> /\ QueryIdle
    /\ \E S \in {T \in SUBSET FileNames : Cardinality(T) <= MaxFiles} :
          /\ raw_html \in [S -> Files]
          /\ listing \in Listings(S)
    /\ cleaned_html = <<>>
    /\ cleaned_markdown = <<>>
    /\ main_pc = "loop"
    /\ raised_on = <<>>

\* lines 55-56: a name that does not end in .html is passed over
SkipFile ==
    /\ main_pc = "loop" /\ listing # <<>>
    /\ ~endswith_html(Head(listing))
    /\ listing' = Tail(listing)
    /\ UNCHANGED <<raw_html, cleaned_html, cleaned_markdown, main_pc, raised_on>>
    /\ UNCHANGED <<cleanVars, indexVars, index, queryVars>>

\* lines 57-67: one file cleaned, converted and written
ProcessFile ==
    /\ main_pc = "loop" /\ listing # <<>>
    /\ endswith_html(Head(listing))
    /\ ~clean_html_file_raises(raw_html[Head(listing)])
    /\ LET filename == Head(listing)
           cleaned  == clean_html_file(raw_html[filename].doc)
       IN  /\ cleaned_html' = Put(cleaned_html, filename, cleaned)
           /\ cleaned_markdown' =
                 Put(cleaned_markdown, replace_html_md(filename),
                     partition_html(cleaned))
    /\ listing' = Tail(listing)
    /\ UNCHANGED <<raw_html, main_pc, raised_on>>
    /\ UNCHANGED <<cleanVars, indexVars, index, queryVars>>

\* line 59 raises: nothing catches the exception, the script ends there
FileRaises ==
    /\ main_pc = "loop" /\ listing # <<>>
    /\ endswith_html(Head(listing))
    /\ clean_html_file_raises(raw_html[Head(listing)])
    /\ main_pc' = "raised"
    /\ raised_on' = Head(listing)
    /\ UNCHANGED <<raw_html, listing, cleaned_html, cleaned_markdown>>
    /\ UNCHANGED <<cleanVars, indexVars, index, queryVars>>

\* line 69: the loop is over, the confirmation is printed
Finish ==
    /\ main_pc = "loop" /\ listing = <<>>
    /\ main_pc' = "done"
    /\ UNCHANGED <<raw_html, listing, cleaned_html, cleaned_markdown, raised_on>>
    /\ UNCHANGED <<cleanVars, indexVars, index, queryVars>>

MainNext == SkipFile \/ ProcessFile \/ FileRaises \/ Finish

SpecMain == MainInit /\ [][MainNext]_vars

-----------------------------------------------------------------------------
(* embed_documents.py.  A text is a sequence of tokens: a word (a run of   *)
(* len characters without whitespace), a blank or a newline.  A split or a *)
(* chunk is a range [lo, hi] of token positions of its document.           *)

chunk_size == 500
chunk_overlap == 100

W(len) == [k |-> "w", len |-> len]
SP == [k |-> "sp", len |-> 1]
NL == [k |-> "nl", len |-> 1]

\* len(text[lo..hi])
RECURSIVE LenOf(_, _, _)
LenOf(t, lo, hi) == IF lo > hi THEN 0 ELSE t[lo].len + LenOf(t, lo + 1, hi)

\* RecursiveCharacterTextSplitter's default separators "\n\n", "\n", " ", ""
\* are numbered 1 to 4
LastSeparator == 4

\* where the leftmost, non-overlapping matches of separator k start in lo..hi
RECURSIVE SepStarts(_, _, _, _)
SepStarts(t, lo, hi, k) ==
    IF lo > hi THEN {}
    ELSE IF k = 1
         THEN IF lo < hi /\ t[lo].k = "nl" /\ t[lo + 1].k = "nl"
              THEN {lo} \cup SepStarts(t, lo + 2, hi, k)
              ELSE SepStarts(t, lo + 1, hi, k)
         ELSE IF t[lo].k = (IF k = 2 THEN "nl" ELSE "sp")
              THEN {lo} \cup SepStarts(t, lo + 1, hi, k)
              ELSE SepStarts(t, lo + 1, hi, k)

\* _split_text picks the first separator, from number from on, that occurs in
\* the text; "" is picked when it is reached
choose_separator(t, lo, hi, from) ==
    LET found == {k \in from..(LastSeparator - 1) : SepStarts(t, lo, hi, k) # {}}
    IN  IF found = {} THEN LastSeparator ELSE Min(found)

\* the elements of a set of numbers in increasing order
RECURSIVE Sorted(_)
Sorted(S) == IF S = {} THEN <<>> ELSE <<Min(S)>> \o Sorted(S \ {Min(S)})

\* _split_text_with_regex with keep_separator: the text is cut before every
\* match, so each separator starts the piece that follows it; empty pieces go
split_with_regex(t, lo, hi, k) ==
    LET cuts == Sorted(SepStarts(t, lo, hi, k) \ {lo})
        n    == Len(cuts)
    IN  [i \in 1..(n + 1) |->
            [lo |-> IF i = 1 THEN lo ELSE cuts[i - 1],
             hi |-> IF i = n + 1 THEN hi ELSE cuts[i] - 1]]

\* _join_docs: the splits joined (they are adjacent) and stripped of the
\* whitespace at both ends; <<>> when nothing is left (None)
join_docs(t, current) ==
    LET lo == current[1].lo
        hi == current[Len(current)].hi
        ws == {p \in lo..hi : t[p].k = "w"}
    IN  IF ws = {} THEN <<>> ELSE << [lo |-> Min(ws), hi |-> Max(ws)] >>

\* a bug pop_front could have: the overlap bound forgotten, splits leave the
\* front only while the next split does not fit
RECURSIVE pop_front_no_overlap_bound(_, _, _, _)
pop_front_no_overlap_bound(t, current, total, len) ==
    IF total + len > chunk_size /\ total > 0
    THEN pop_front_no_overlap_bound(t, Tail(current),
                   total - LenOf(t, current[1].lo, current[1].hi), len)
    ELSE [current |-> current, total |-> total]

\* the while loop of _merge_splits: splits leave the front of current_doc
\* while it is longer than the overlap, or too long for the next split
RECURSIVE pop_front(_, _, _, _)
pop_front(t, current, total, len) ==
    IF total > chunk_overlap \/ (total + len > chunk_size /\ total > 0)
    THEN pop_front(t, Tail(current),
                   total - LenOf(t, current[1].lo, current[1].hi), len)
    ELSE [current |-> current, total |-> total]

\* _merge_splits with the separator "" that keep_separator gives it
RECURSIVE merge_from(_, _, _, _, _)
merge_from(t, splits, i, current, total) ==
    IF i > Len(splits)
    THEN IF current = <<>> THEN <<>> ELSE join_docs(t, current)
    ELSE LET d    == splits[i]
             len  == LenOf(t, d.lo, d.hi)
             over == total + len > chunk_size /\ current # <<>>
             kept == IF over THEN pop_front(t, current, total, len)
                     ELSE [current |-> current, total |-> total]
         IN  (IF over THEN join_docs(t, current) ELSE <<>>)
                 \o merge_from(t, splits, i + 1,
                               Append(kept.current, d), kept.total + len)

merge_splits(t, splits) == merge_from(t, splits, 1, <<>>, 0)

\* _split_text: splits shorter than chunk_size are collected and merged; a
\* longer one is split again with the separators that follow.  With the
\* separator "" the text is one word shorter than chunk_size, whose characters
\* merge into a single chunk.
RECURSIVE split_text(_, _, _, _)
RECURSIVE split_loop(_, _, _, _, _)
split_loop(t, splits, i, good, k) ==
    LET merged == IF good = <<>> THEN <<>> ELSE merge_splits(t, good)
    IN  IF i > Len(splits) THEN merged
        ELSE IF LenOf(t, splits[i].lo, splits[i].hi) < chunk_size
             THEN split_loop(t, splits, i + 1, Append(good, splits[i]), k)
             ELSE merged \o split_text(t, splits[i].lo, splits[i].hi, k + 1)
                         \o split_loop(t, splits, i + 1, <<>>, k)

split_text(t, lo, hi, from) ==
    LET k == choose_separator(t, lo, hi, from)
    IN  IF k = LastSeparator THEN join_docs(t, << [lo |-> lo, hi |-> hi] >>)
        ELSE split_loop(t, split_with_regex(t, lo, hi, k), 1, <<>>, k)

\* line 21: every document split, its chunks tagged with their source
RECURSIVE split_documents(_, _)
split_documents(docs, n) ==
    IF n > Len(docs) THEN <<>>
    ELSE LET cs == split_text(docs[n], 1, Len(docs[n]), 1)
         IN  [i \in 1..Len(cs) |-> [source |-> n, lo |-> cs[i].lo, hi |-> cs[i].hi]]
                 \o split_documents(docs, n + 1)

\* line 25: Chroma.from_documents gives every chunk a fresh id and adds it to
\* the collection persist_dir already holds
from_documents(collection, cs) ==
    collection \o [i \in 1..Len(cs) |->
                      [id |-> Len(collection) + i, chunk |-> cs[i]]]

\* the lengths of the words of the documents
WordLens == {99, 200, 400}

\* the directories that are dir with one more word: after a blank or a blank
\* line in its last document, or as the start of a new document
ExtendDir(dir) ==
    LET n == Len(dir)
    IN  {Append(dir, <<W(l)>>) : l \in WordLens}
        \cup (IF n = 0 THEN {}
              ELSE {[dir EXCEPT ![n] = @ \o sep \o <<W(l)>>] :
                       sep \in {<<SP>>, <<NL, NL>>}, l \in WordLens})

RECURSIVE DirsOfSize(_)
DirsOfSize(n) ==
    IF n = 0 THEN {<<>>} ELSE UNION {ExtendDir(dir) : dir \in DirsOfSize(n - 1)}

IndexerInit ==
    /\ CleanIdle /\ MainIdle /\ QueryIdle
    /\ md_dir \in UNION {DirsOfSize(n) : n \in 1..MaxPieces}
    /\ chunks = <<>>
    /\ index = <<>>
    /\ runs = 0

\* lines 13-26: one run of the script
RunIndexer ==
    /\ runs < MaxRuns
    /\ chunks' = split_documents(md_dir, 1)
    /\ index' = from_documents(index, chunks')
    /\ runs' = runs + 1
    /\ UNCHANGED <<md_dir, cleanVars, mainVars, queryVars>>

IndexerNext == RunIndexer

SpecIndexer == IndexerInit /\ [][IndexerNext]_vars

-----------------------------------------------------------------------------
(* query_with_context.py.  A formatted string is the sequence of its       *)
(* pieces: literal text, a formatted number, the text of a chunk or the    *)
(* query.                                                                  *)

top_k == 5

Lit(str) == [lit |-> str]
Num(n)   == [num |-> n]
Text(c)  == [text |-> c]

\* doc.page_content: the chunk an entry of the collection holds
page_content(doc) == doc.chunk

\* line 14: the k nearest entries, or all of them when there are fewer, in an
\* order the embedding decides
similarity_search(collection, k) ==
    LET n == IF Len(collection) < k THEN Len(collection) ELSE k
    IN  {[r \in 1..n |-> collection[rank[r]]] :
            rank \in {f \in [1..n -> DOMAIN collection] :
                         \A a, b \in 1..n : a # b => f[a] # f[b]}}

\* line 16
Preamble ==
    Lit("You are an expert. Use the following information to answer the user's question.\n\n")

\* a bug source_block could have: enumerate's index used as it is
source_block_zero_based(idx, doc) ==
    << Lit("[Source "), Num(idx), Lit("]\n"), Text(page_content(doc)), Lit("\n\n") >>

\* line 18: f"[Source {i+1}]\n{doc.page_content}\n\n"
source_block(idx, doc) ==
    << Lit("[Source "), Num(idx + 1), Lit("]\n"), Text(page_content(doc)), Lit("\n\n") >>

\* a bug prompt_tail could have: the cue left out
prompt_tail_no_cue(q) == << Lit("User's question: "), Text(q) >>

\* line 19: f"User's question: {query}\n\nAnswer:"
prompt_tail(q) == << Lit("User's question: "), Text(q), Lit("\n\nAnswer:") >>

\* lines 21-24 (the first line without its emoji)
printed(p) ==
    << Lit("\n Copy this prompt into your LLM chat:"),
       Lit("======== COPY BELOW ========"),
       p,
       Lit("======== COPY ABOVE ========") >>

Queries == {"What is the capital of France?", ""}

\* the collections of n entries, each holding a chunk of its own
Collection(n) ==
    [e \in 1..n |-> [id |-> e, chunk |-> [source |-> 1, lo |-> e, hi |-> e]]]

QueryInit ==
    /\ CleanIdle /\ MainIdle /\ IndexIdle
    /\ index \in {Collection(n) : n \in 0..MaxIndex}
    /\ query_pc = "input"
    /\ query = ""
    /\ results = <<>>
    /\ loop_i = 0
    /\ prompt = <<>>
    /\ stdout = <<>>

\* lines 13-16: the question is read, the chunks retrieved, the prompt begun
Retrieve ==
    /\ query_pc = "input"
    /\ query' \in Queries
    /\ results' \in similarity_search(index, top_k)
    /\ prompt' = <<Preamble>>
    /\ loop_i' = 0
    /\ query_pc' = "loop"
    /\ UNCHANGED <<stdout, index, cleanVars, mainVars, indexVars>>

\* lines 17-18: one iteration of the loop
AddSource ==
    /\ query_pc = "loop"
    /\ loop_i < Len(results)
    /\ prompt' = prompt \o source_block(loop_i, results[loop_i + 1])
    /\ loop_i' = loop_i + 1
    /\ UNCHANGED <<query_pc, query, results, stdout, index>>
    /\ UNCHANGED <<cleanVars, mainVars, indexVars>>

\* line 19, once the loop is over
EndPrompt ==
    /\ query_pc = "loop"
    /\ loop_i = Len(results)
    /\ prompt' = prompt \o prompt_tail(query)
    /\ query_pc' = "print"
    /\ UNCHANGED <<query, results, loop_i, stdout, index>>
    /\ UNCHANGED <<cleanVars, mainVars, indexVars>>

\* lines 21-24
PrintPrompt ==
    /\ query_pc = "print"
    /\ stdout' = printed(prompt)
    /\ query_pc' = "done"
    /\ UNCHANGED <<query, results, loop_i, prompt, index>>
    /\ UNCHANGED <<cleanVars, mainVars, indexVars>>

QueryNext == Retrieve \/ AddSource \/ EndPrompt \/ PrintPrompt

SpecQuery == QueryInit /\ [][QueryNext]_vars

-----------------------------------------------------------------------------
(* Claims about clean_html_file                                            *)

\* the identities of the nodes of the subtree rooted at position i
SubtreeNids(d, i) == {d[k].nid : k \in i..SubtreeEnd(d, i)}

\* the identities of the nodes below the body element of d
InBodyNids(d) ==
    IF body_of(d) = 0 THEN {}
    ELSE SubtreeNids(d, body_of(d)) \ {d[body_of(d)].nid}

\* the heading element that encloses the "See also" span, 0 when none does
EnclosingHeading(d) ==
    LET sp  == see_also_span_of(d)
        anc == {j \in 1..Len(d) : IsAncestor(d, j, sp) /\ IsHeadingName(d[j].name)}
    IN  IF sp = 0 \/ anc = {} THEN 0 ELSE Max(anc)

\* the heading at position h with every sibling node, strings included, that
\* follows it before the next sibling that is a heading element
SectionNids(d, h) ==
    LET stop  == First({k \in (h + 1)..Len(d) : d[k].depth < d[h].depth})
        last  == IF stop = 0 THEN Len(d) ELSE stop - 1
        nextH == First({k \in (h + 1)..last :
                           d[k].depth = d[h].depth /\ IsHeadingName(d[k].name)})
    IN  {d[k].nid : k \in h..(IF nextH = 0 THEN last ELSE nextH - 1)}

\* C1: when the "See also" span sits in a heading (the h2 the code looks for),
\* the section-removal step removes that heading and every sibling element
\* after it up to the next heading element (strings between them, which
\* find_next_sibling never visits, are not counted here), and it keeps every
\* node outside that section, the next heading included.
C1_SeeAlsoSectionRemoved ==
    [][(pc = "remove_see_also" /\ EnclosingHeading(soup) # 0
           /\ soup[EnclosingHeading(soup)].name = "h2")
          => LET section == SectionNids(soup, EnclosingHeading(soup))
             IN  /\ \A i \in 1..Len(soup) :
                       (soup[i].nid \in section /\ IsTag(soup[i]))
                           => soup[i].nid \notin Nids(soup')
                 /\ Nids(soup) \ section \subseteq Nids(soup')]_vars

\* C3 as stated: whenever the input holds an element with id mw-content-text,
\* whatever its tag, the body of the cleaned output holds only nodes of that
\* element's subtree; without such an element the first step changes nothing.
C3_BodyOnlyMainById ==
    LET m == First({i \in 1..Len(input) : input[i].id = "mw-content-text"})
    IN  /\ (pc = "done" /\ m # 0) => InBodyNids(output) \subseteq SubtreeNids(input, m)
        /\ (pc = "remove_clutter" /\ m = 0) => soup = input

\* C3 amended: whenever the input holds a div with id mw-content-text, every
\* node below the body of a cleaned output that was written comes from that
\* div's subtree; without such a div the first step leaves the tree unchanged.
C3_BodyOnlyMainDiv ==
    LET m == content_root_of(input)
    IN  /\ (pc = "done" /\ m # 0) => InBodyNids(output) \subseteq SubtreeNids(input, m)
        /\ (pc = "remove_clutter" /\ m = 0) => soup = input

\* a cleaned output whose input had a neighbour of the main div inside the body
C3_Witness ==
    /\ pc = "done"
    /\ content_root_of(input) # 0
    /\ InBodyNids(input) \ SubtreeNids(input, content_root_of(input)) # {}
    /\ InBodyNids(output) # {}

\* C9: clean_html_file raises no error, whichever of the expected structures
\* the document lacks, and the cleaned output is written.
C9_NeverRaises == pc # "raised"

\* C10: on an input without a span with id See_also the section-removal step
\* leaves the tree as it found it.
C10_NoSeeAlsoNoRemoval ==
    [][(pc = "remove_see_also" /\ see_also_span_of(input) = 0) => soup' = soup]_vars

\* the step has run on a tree without the span that holds an h2 followed by a tag
C10_Witness ==
    /\ pc = "write"
    /\ see_also_span_of(input) = 0
    /\ \E i \in 1..Len(soup) : soup[i].name = "h2" /\ find_next_sibling(soup, i) # 0

-----------------------------------------------------------------------------
(* Claims about the main script of parse_html.py                           *)

HtmlFiles == {f \in DOMAIN raw_html : endswith_html(f)}

\* the name with its last piece, the extension, changed to .md
ExtensionChanged(filename) ==
    SubSeq(filename, 1, Len(filename) - 1) \o <<".md">>

\* C2: a failure on one file does not end the batch: when the script has
\* ended, every .html file that does not itself fail has its cleaned HTML and
\* its markdown output.
C2_FailureDoesNotAbortBatch ==
    main_pc \in {"done", "raised"} =>
        \A f \in HtmlFiles :
            ~clean_html_file_raises(raw_html[f]) =>
                /\ f \in DOMAIN cleaned_html
                /\ replace_html_md(f) \in DOMAIN cleaned_markdown

\* C7: after a run that processed every file, each .html input has exactly one
\* cleaned file and one markdown file, named as the input with its .html
\* extension changed to .md, and no two inputs share a markdown file.
C7_OneMarkdownPerInput ==
    main_pc = "done" =>
        /\ DOMAIN cleaned_html = HtmlFiles
        /\ DOMAIN cleaned_markdown = {ExtensionChanged(f) : f \in HtmlFiles}
        /\ Cardinality(DOMAIN cleaned_markdown) = Cardinality(HtmlFiles)

-----------------------------------------------------------------------------
(* Claims about embed_documents.py                                         *)

ChunkLen(c) == LenOf(md_dir[c.source], c.lo, c.hi)

\* the characters two chunks of one document share
Overlap(c1, c2) ==
    IF c2.lo > c1.hi THEN 0 ELSE LenOf(md_dir[c1.source], c2.lo, c1.hi)

\* the positions i with chunks[i], chunks[i + 1] consecutive chunks of one document
ConsecutivePairs ==
    {i \in 1..(Len(chunks) - 1) : chunks[i].source = chunks[i + 1].source}

\* chunks[i] is the final chunk of its document
IsFinalChunk(i) == i = Len(chunks) \/ chunks[i + 1].source # chunks[i].source

\* C6: however often the Indexer ran over the unchanged directory, the
\* persisted index holds each chunk once, as after a single run.
C6_RerunIdempotent ==
    runs >= 1 =>
        /\ Len(index) = Len(chunks)
        /\ \A i, j \in DOMAIN index : i # j => index[i].chunk # index[j].chunk

\* C8 as stated: every chunk is at most chunk_size long, and consecutive
\* chunks of a document overlap by exactly chunk_overlap, except possibly
\* where the second is the document's final chunk.
C8_OverlapExactly ==
    /\ \A i \in DOMAIN chunks : ChunkLen(chunks[i]) <= chunk_size
    /\ \A i \in ConsecutivePairs :
          ~IsFinalChunk(i + 1) => Overlap(chunks[i], chunks[i + 1]) = chunk_overlap

\* C8 amended: every chunk is at most chunk_size long, and consecutive chunks
\* of a document overlap by at most chunk_overlap.
C8_OverlapAtMost ==
    /\ \A i \in DOMAIN chunks : ChunkLen(chunks[i]) <= chunk_size
    /\ \A i \in ConsecutivePairs :
          Overlap(chunks[i], chunks[i + 1]) <= chunk_overlap

\* a document split into three chunks or more, one of them chunk_size long,
\* with a pair that overlaps and a pair that does not
C8_Witness ==
    /\ \E i \in ConsecutivePairs : i + 1 \in ConsecutivePairs
    /\ \E i \in DOMAIN chunks : ChunkLen(chunks[i]) = chunk_size
    /\ \E i \in ConsecutivePairs : Overlap(chunks[i], chunks[i + 1]) > 0
    /\ \E i \in ConsecutivePairs : Overlap(chunks[i], chunks[i + 1]) = 0

-----------------------------------------------------------------------------
(* Claims about query_with_context.py                                      *)

\* C4: the finished prompt is the preamble, then for each result r = 1..n, in
\* the order retrieved, the block "[Source r]" with that result's text, then
\* the question and the "Answer:" cue, and nothing else; n is at most top_k.
C4_PromptLayout ==
    query_pc \in {"print", "done"} =>
        LET n == Len(results)
        IN  /\ n <= top_k
            /\ Len(prompt) = 1 + 5 * n + 3
            /\ prompt[1] = Preamble
            /\ \A r \in 1..n :
                  /\ prompt[5 * r - 3] = Lit("[Source ")
                  /\ prompt[5 * r - 2] = Num(r)
                  /\ prompt[5 * r - 1] = Lit("]\n")
                  /\ prompt[5 * r] = Text(results[r].chunk)
                  /\ prompt[5 * r + 1] = Lit("\n\n")
            /\ prompt[5 * n + 2] = Lit("User's question: ")
            /\ prompt[5 * n + 3] = Text(query)
            /\ prompt[5 * n + 4] = Lit("\n\nAnswer:")

\* a prompt of top_k sources out of a larger collection, not in stored order
C4_Witness ==
    /\ query_pc = "done"
    /\ Len(results) = top_k
    /\ Len(index) > top_k
    /\ \E r \in 1..(top_k - 1) : results[r].id > results[r + 1].id

\* C5: on an empty collection retrieval yields nothing, the script runs to
\* its end, and what it prints between the banner lines is the preamble, the
\* question and the "Answer:" cue, with no Source block.
C5_EmptyIndexPrompt ==
    index = <<>> =>
        /\ query_pc # "input" => results = <<>>
        /\ query_pc # "done" => ENABLED QueryNext
        /\ query_pc = "done" =>
              stdout = << Lit("\n Copy this prompt into your LLM chat:"),
                          Lit("======== COPY BELOW ========"),
                          << Preamble, Lit("User's question: "), Text(query),
                             Lit("\n\nAnswer:") >>,
                          Lit("======== COPY ABOVE ========") >>

\* the script ended on an empty collection with a question asked
C5_Witness == index = <<>> /\ query_pc = "done" /\ query # ""

=============================================================================
